---- MODULE Spec2Model ----
(***************************************************************************)
(* Model of src/simularity_set.py: the classes bounding_box and            *)
(* simularity_set.  One simularity_set object is constructed from a label  *)
(* image (region_image) and a colour image, and is then driven by a        *)
(* caller through its public methods.                                      *)
(*                                                                         *)
(* Python sets are objects that add()/remove() change in place, so the two *)
(* sets live in a heap and the attributes self.sim_set / self.region_set   *)
(* are references into it; get_sim_set() hands out such a reference.       *)
(* An exception leaves the object as it was when the exception was raised  *)
(* and is recorded in raised.                                              *)
(***************************************************************************)
EXTENDS Integers, FiniteSets, Sequences, TLC

\* ------------------------------------------------------------------ bounds
\* Pixels of the label images a client constructs the object from.
MaxPixels == 4
\* Pixels of the label images whose construction alone is followed.
MaxScanPixels == 6
\* Labels are 1 .. MaxLabel.
MaxLabel == 3
\* Method calls a client makes on the constructed object.
MaxCalls == 2

\* ------------------------------------------------------------ state
VARIABLES
    region_image,   \* self.region_image: [<<row, col>> -> label], 0-based
    height,         \* self.height
    width,          \* self.width
    image,          \* self.image, kept as its <<rows, cols>> shape
    heap,           \* the set objects: reference -> set value
    sim_set,        \* self.sim_set: reference to the set of (a, b) tuples
    region_set,     \* self.region_set: reference to the set of labels
    bounding_box,   \* self.bounding_box: dict label -> bounding_box
    pc,             \* position in __init__: "scan", "boxes", then "ready"
    row,            \* loop variable of line 38
    col,            \* loop variable of line 39
    driver,         \* who calls the object: "client" or "smoke" (__main__)
    calls,          \* number of method calls made after construction
    last,           \* the method called most recently, "none" before any
    result,         \* what that call returned
    raised,         \* the exception that call raised, or "none"
    held            \* the reference the caller got from get_sim_set(), 0 if none

vars == <<region_image, height, width, image, heap, sim_set, region_set,
          bounding_box, pc, row, col, driver, calls, last, result, raised, held>>

\* ------------------------------------------------------------ helpers
Min(S) == CHOOSE x \in S : \A y \in S : x <= y
Max(S) == CHOOSE x \in S : \A y \in S : x >= y

NoCall == "none"
None == [none |-> TRUE]

\* References of the two set objects allocated at lines 29-30.
RegionSetRef == 1
SimSetRef == 2

SimSet == heap[sim_set]
RegionSet == heap[region_set]

\* The labels occurring in a label image.
LabelsOf(img) == {img[p] : p \in DOMAIN img}

\* ------------------------------------------------------------ bounding_box
\* bounding_box.__init__
BoundingBox(region, row_start, col_start, h, w) ==
    [region |-> region, row_start |-> row_start, col_start |-> col_start,
     height |-> h, width |-> w]

\* bounding_box.__len__
BoxLen(box) == box.height * box.width

\* ------------------------------------------------------------ add_set
\* add_set without the test of line 76: both orders of a pair get stored.
add_set_both_orders(st, region_a, region_b) ==
    IF region_a # region_b
    THEN [sim |-> st.sim \cup {<<region_a, region_b>>},
          reg |-> (st.reg \cup {region_a}) \cup {region_b}]
    ELSE st

\* The body of add_set on the two set values; st = [sim, reg].
add_set(st, region_a, region_b) ==
    IF region_a # region_b
    THEN [sim |-> IF <<region_b, region_a>> \notin st.sim
                  THEN st.sim \cup {<<region_a, region_b>>}
                  ELSE st.sim,
          reg |-> (st.reg \cup {region_a}) \cup {region_b}]
    ELSE st

\* The scan without the upper-right neighbour of lines 50-52.
ScanPixelNoUpRight(img, h, w, r, c, st) ==
    LET current_region == img[<<r, c>>]
        s1 == IF c + 1 < w
              THEN add_set(st, current_region, img[<<r, c + 1>>]) ELSE st
        s2 == IF r + 1 < h
              THEN add_set(s1, current_region, img[<<r + 1, c>>]) ELSE s1
        s3 == IF (c + 1 < w) /\ (r + 1 < h)
              THEN add_set(s2, current_region, img[<<r + 1, c + 1>>]) ELSE s2
    IN  s3

\* One iteration of the loop body of lines 40-52 at pixel (r, c): the label is
\* compared with its right, lower, lower-right and upper-right neighbours.
ScanPixel(img, h, w, r, c, st) ==
    LET current_region == img[<<r, c>>]
        s1 == IF c + 1 < w
              THEN add_set(st, current_region, img[<<r, c + 1>>]) ELSE st
        s2 == IF r + 1 < h
              THEN add_set(s1, current_region, img[<<r + 1, c>>]) ELSE s1
        s3 == IF (c + 1 < w) /\ (r + 1 < h)
              THEN add_set(s2, current_region, img[<<r + 1, c + 1>>]) ELSE s2
        s4 == IF (c + 1 < w) /\ (r > 0)
              THEN add_set(s3, current_region, img[<<r - 1, c + 1>>]) ELSE s3
    IN  s4

\* ------------------------------------------------------------ geometry
\* get_indices_of_region: the (row, col) positions holding the label.
get_indices_of_region(img, region) == {p \in DOMAIN img : img[p] = region}

\* create_bounding_box.  The builtin min() of line 131 raises ValueError on
\* the empty index array of a label that is nowhere in the image.
create_bounding_box(img, region) ==
    LET indices == get_indices_of_region(img, region)
        rows == {p[1] : p \in indices}
        cols == {p[2] : p \in indices}
    IN  IF indices = {}
        THEN [raised |-> "ValueError", value |-> None]
        ELSE LET row_start == Min(rows)
                 col_start == Min(cols)
                 h == Max(rows) - row_start
                 w == Max(cols) - col_start
             IN  [raised |-> "none",
                  value |-> BoundingBox(region, row_start, col_start, h, w)]

\* combine_bounding_boxes, as written (line 152 reads box_b.row_start).
combine_bounding_boxes(box_a, box_b) ==
    LET row_start == Min({box_a.row_start, box_b.row_start})
        col_start == Min({box_a.col_start, box_b.col_start})
        max_row_a == box_a.row_start + box_a.height
        max_col_a == box_a.col_start + box_a.width
        max_row_b == box_b.row_start + box_b.height
        max_col_b == box_b.row_start + box_b.width
        h == Max({max_row_a, max_row_b}) - row_start
        w == Max({max_col_a, max_col_b}) - col_start
    IN  BoundingBox(<<box_a.region, box_b.region>>, row_start, col_start, h, w)

\* The cache with the box of one region left out.
BoundingBoxCacheSkipsOne(img, regions) ==
    [region \in regions \ {Max(regions \cup {0})} |->
        create_bounding_box(img, region).value]

\* The cache built by lines 54-58: a box for every region of region_set.
BoundingBoxCache(img, regions) ==
    [region \in regions |-> create_bounding_box(img, region).value]

\* ------------------------------------------------------------ remove_set
\* set.remove guarded by a membership test (lines 103-106): in place.
Discard(hp, ref, x) == [hp EXCEPT ![ref] = @ \ {x}]

\* The pairs of a set that contain the label (the comprehension of line 109).
Containing(pairs, region) == {item \in pairs : region = item[1] \/ region = item[2]}

\* remove_set without lines 111-112: the second label is never pruned.
remove_set_keeps_second(hp, sim, reg, s) ==
    LET h1 == IF s \in hp[sim] THEN Discard(hp, sim, s) ELSE hp
        h2 == IF <<s[2], s[1]>> \in h1[sim]
              THEN Discard(h1, sim, <<s[2], s[1]>>) ELSE h1
    IN  IF Containing(h2[sim], s[1]) = {} /\ s[1] \notin h2[reg]
        THEN [heap |-> h2, raised |-> "KeyError"]
        ELSE [heap |-> IF Containing(h2[sim], s[1]) = {}
                       THEN Discard(h2, reg, s[1]) ELSE h2,
              raised |-> "none"]

\* remove_set without lines 105-106: only the order given is removed.
remove_set_one_order(hp, sim, reg, s) ==
    LET h2 == IF s \in hp[sim] THEN Discard(hp, sim, s) ELSE hp
    IN  IF Containing(h2[sim], s[1]) = {} /\ s[1] \notin h2[reg]
        THEN [heap |-> h2, raised |-> "KeyError"]
        ELSE LET h3 == IF Containing(h2[sim], s[1]) = {}
                       THEN Discard(h2, reg, s[1]) ELSE h2
             IN  IF Containing(h3[sim], s[2]) = {} /\ s[2] \notin h3[reg]
                 THEN [heap |-> h3, raised |-> "KeyError"]
                 ELSE [heap |-> IF Containing(h3[sim], s[2]) = {}
                                THEN Discard(h3, reg, s[2]) ELSE h3,
                       raised |-> "none"]

\* remove_set whose line 106 adds the reversed pair when the given order was
\* the one stored, instead of removing it.
remove_set_adds_reverse(hp, sim, reg, s) ==
    LET h1 == IF s \in hp[sim] THEN Discard(hp, sim, s) ELSE hp
        h2 == IF s \in hp[sim] /\ s[1] # s[2]
              THEN [h1 EXCEPT ![sim] = @ \cup {<<s[2], s[1]>>}]
              ELSE IF <<s[2], s[1]>> \in h1[sim]
                   THEN Discard(h1, sim, <<s[2], s[1]>>) ELSE h1
    IN  IF Containing(h2[sim], s[1]) = {} /\ s[1] \notin h2[reg]
        THEN [heap |-> h2, raised |-> "KeyError"]
        ELSE LET h3 == IF Containing(h2[sim], s[1]) = {}
                       THEN Discard(h2, reg, s[1]) ELSE h2
             IN  IF Containing(h3[sim], s[2]) = {} /\ s[2] \notin h3[reg]
                 THEN [heap |-> h3, raised |-> "KeyError"]
                 ELSE [heap |-> IF Containing(h3[sim], s[2]) = {}
                                THEN Discard(h3, reg, s[2]) ELSE h3,
                       raised |-> "none"]

\* remove_set(s) on the heap; set.remove of a missing element raises KeyError
\* and the statements after it are not executed.
remove_set(hp, sim, reg, s) ==
    LET h1 == IF s \in hp[sim] THEN Discard(hp, sim, s) ELSE hp
        h2 == IF <<s[2], s[1]>> \in h1[sim]
              THEN Discard(h1, sim, <<s[2], s[1]>>) ELSE h1
    IN  IF Containing(h2[sim], s[1]) = {} /\ s[1] \notin h2[reg]
        THEN [heap |-> h2, raised |-> "KeyError"]
        ELSE LET h3 == IF Containing(h2[sim], s[1]) = {}
                       THEN Discard(h2, reg, s[1]) ELSE h2
             IN  IF Containing(h3[sim], s[2]) = {} /\ s[2] \notin h3[reg]
                 THEN [heap |-> h3, raised |-> "KeyError"]
                 ELSE [heap |-> IF Containing(h3[sim], s[2]) = {}
                                THEN Discard(h3, reg, s[2]) ELSE h3,
                       raised |-> "none"]

\* simularity_set.__len__
SimularitySetLen == Cardinality(RegionSet)

\* ------------------------------------------------------------ inputs
\* A label image given by its rows, as np.array does (line 237).
FromRows(rows) ==
    [p \in (0 .. Len(rows) - 1) \X (0 .. Len(rows[1]) - 1) |->
        rows[p[1] + 1][p[2] + 1]]

\* The label image of the smoke test (line 237) and the calls it makes on the
\* object (lines 241-244).
SmokeRows == << <<1, 2, 3>>, <<4, 5, 6>>, <<4, 4, 6>> >>
SmokeImage == FromRows(SmokeRows)
SmokeScript ==
    << [op |-> "get_sim_set", args |-> <<>>],
       [op |-> "remove_set", args |-> <<1, 2>>],
       [op |-> "remove_set", args |-> <<1, 4>>],
       [op |-> "remove_set", args |-> <<1, 5>>] >>

\* The label images and labels a client passes in.
Labels == 1 .. MaxLabel
Images(h, w) == [(0 .. h - 1) \X (0 .. w - 1) -> Labels]
\* The shapes of the colour image passed with an h x w label image: the same
\* shape, one column wider, one row taller.
ImageShapes(h, w) == {<<h, w>>, <<h, w + 1>>, <<h + 1, w>>}

\* ------------------------------------------------------------ __init__
\* The state after lines 27-35 of __init__, before the scan of line 38.
InitFields ==
    /\ heap = [ref \in {RegionSetRef, SimSetRef} |-> {}]
    /\ region_set = RegionSetRef
    /\ sim_set = SimSetRef
    /\ bounding_box = <<>>
    /\ pc = "scan"
    /\ row = 0
    /\ col = 0
    /\ calls = 0
    /\ last = NoCall
    /\ result = None
    /\ raised = "none"
    /\ held = 0

\* A client's label image of at most n pixels.
InitImage(n) ==
    /\ driver = "client"
    /\ \E h \in 1 .. n, w \in 1 .. n :
          /\ h * w <= n
          /\ height = h
          /\ width = w
          /\ region_image \in Images(h, w)

\* A client that then calls the object's methods.
InitClient ==
    /\ InitImage(MaxPixels)
    /\ image = <<height, width>>
    /\ InitFields

\* Construction alone, of larger label images and with colour images of any
\* of the shapes.
InitConstruct ==
    /\ InitImage(MaxScanPixels)
    /\ image \in ImageShapes(height, width)
    /\ InitFields

InitSmoke ==
    /\ driver = "smoke"
    /\ region_image = SmokeImage
    /\ height = Len(SmokeRows)
    /\ width = Len(SmokeRows[1])
    /\ image = <<Len(SmokeRows), Len(SmokeRows[1])>>
    /\ InitFields

Init == InitClient \/ InitSmoke

\* Lines 38-52, one pixel per step.
Scan ==
    /\ pc = "scan"
    /\ LET st == ScanPixel(region_image, height, width, row, col,
                           [sim |-> SimSet, reg |-> RegionSet])
       IN  heap' = [heap EXCEPT ![sim_set] = st.sim, ![region_set] = st.reg]
    /\ IF col + 1 < width
       THEN /\ col' = col + 1
            /\ UNCHANGED <<row, pc>>
       ELSE IF row + 1 < height
            THEN /\ col' = 0
                 /\ row' = row + 1
                 /\ UNCHANGED pc
            ELSE /\ pc' = "boxes"
                 /\ UNCHANGED <<row, col>>
    /\ UNCHANGED <<region_image, height, width, image, sim_set, region_set,
                   bounding_box, driver, calls, last, result, raised, held>>

\* Lines 54-58.
Boxes ==
    /\ pc = "boxes"
    /\ bounding_box' = BoundingBoxCache(region_image, RegionSet)
    /\ pc' = "ready"
    /\ UNCHANGED <<region_image, height, width, image, heap, sim_set,
                   region_set, row, col, driver, calls, last, result, raised, held>>

\* ------------------------------------------------------------ method calls
\* What every call leaves alone.
Frame == UNCHANGED <<region_image, height, width, image, sim_set, region_set,
                     bounding_box, pc, row, col, driver>>

Called(op) ==
    /\ calls' = calls + 1
    /\ last' = op

DoAddSet(a, b) ==
    /\ LET st == add_set([sim |-> SimSet, reg |-> RegionSet], a, b)
       IN  heap' = [heap EXCEPT ![sim_set] = st.sim, ![region_set] = st.reg]
    /\ Called("add_set")
    /\ result' = None
    /\ raised' = "none"
    /\ UNCHANGED held
    /\ Frame

DoRemoveSet(a, b) ==
    /\ LET out == remove_set(heap, sim_set, region_set, <<a, b>>)
       IN  /\ heap' = out.heap
           /\ raised' = out.raised
    /\ Called("remove_set")
    /\ result' = None
    /\ UNCHANGED held
    /\ Frame

DoGetSimSet ==
    /\ held' = sim_set
    /\ Called("get_sim_set")
    /\ result' = None
    /\ raised' = "none"
    /\ UNCHANGED heap
    /\ Frame

DoGetIndices(region) ==
    /\ result' = get_indices_of_region(region_image, region)
    /\ raised' = "none"
    /\ Called("get_indices_of_region")
    /\ UNCHANGED <<heap, held>>
    /\ Frame

DoCreateBoundingBox(region) ==
    /\ LET out == create_bounding_box(region_image, region)
       IN  /\ result' = out.value
           /\ raised' = out.raised
    /\ Called("create_bounding_box")
    /\ UNCHANGED <<heap, held>>
    /\ Frame

DoCombine(box_a, box_b) ==
    /\ result' = combine_bounding_boxes(box_a, box_b)
    /\ raised' = "none"
    /\ Called("combine_bounding_boxes")
    /\ UNCHANGED <<heap, held>>
    /\ Frame

ClientReady == pc = "ready" /\ driver = "client" /\ calls < MaxCalls

AddSet == ClientReady /\ \E a \in Labels, b \in Labels : DoAddSet(a, b)

RemoveSet == ClientReady /\ \E a \in Labels, b \in Labels : DoRemoveSet(a, b)

GetSimSet == ClientReady /\ DoGetSimSet

GetIndices == ClientReady /\ \E region \in Labels : DoGetIndices(region)

CreateBoundingBox == ClientReady /\ \E region \in Labels : DoCreateBoundingBox(region)

\* combine_bounding_boxes on the boxes of two labels of the image, as s_fill
\* calls it (lines 208-210).
Combine ==
    /\ ClientReady
    /\ \E a \in LabelsOf(region_image), b \in LabelsOf(region_image) :
          DoCombine(create_bounding_box(region_image, a).value,
                    create_bounding_box(region_image, b).value)

\* The smoke test: its next call, in order.
Smoke ==
    /\ pc = "ready"
    /\ driver = "smoke"
    /\ raised = "none"
    /\ calls < Len(SmokeScript)
    /\ LET c == SmokeScript[calls + 1]
       IN  IF c.op = "get_sim_set"
           THEN DoGetSimSet
           ELSE DoRemoveSet(c.args[1], c.args[2])

\* ------------------------------------------------------------ specifications
\* The pair lifecycle: construction, add_set, remove_set, get_sim_set.
Next == Scan \/ Boxes \/ AddSet \/ RemoveSet \/ GetSimSet \/ Smoke

Spec == Init /\ [][Next]_vars

\* The geometry queries on a constructed object, between pair removals.
NextGeom == Scan \/ Boxes \/ RemoveSet \/ GetIndices \/ CreateBoundingBox \/ Combine

SpecGeom == InitClient /\ [][NextGeom]_vars

\* Construction alone.
NextConstruct == Scan \/ Boxes

SpecConstruct == InitConstruct /\ [][NextConstruct]_vars

\* ============================================================ properties
\* The labels occurring in a set of pairs.
LabelsIn(pairs) == UNION {{item[1], item[2]} : item \in pairs}

\* The labels a call may name: the client's and the image's own.
AnyLabel == Labels \cup LabelsOf(region_image)

\* The pair {a, b} is stored, in either order.
Present(a, b) == <<a, b>> \in SimSet \/ <<b, a>> \in SimSet

\* ------------------------------------------------------------ C1
\* C1: on a constructed object, after any add_set / remove_set calls, a label
\* is in region_set exactly if some pair of sim_set contains it, and len() is
\* the number of distinct labels of the surviving pairs.
C1_LiveIffInSomePair ==
    pc = "ready" =>
        /\ \A region \in AnyLabel :
              region \in RegionSet <=>
                  \E item \in SimSet : item[1] = region \/ item[2] = region
        /\ RegionSet \subseteq AnyLabel
        /\ SimularitySetLen = Cardinality(LabelsIn(SimSet))

\* A remove_set call has taken the last pair of a label of the image, other
\* labels being still live.
C1_Witness ==
    /\ pc = "ready"
    /\ last = "remove_set"
    /\ raised = "none"
    /\ RegionSet # {}
    /\ Cardinality(LabelsOf(region_image)) >= 2
    /\ \E region \in LabelsOf(region_image) : region \notin RegionSet

\* ------------------------------------------------------------ C2
\* C2: remove_set of a pair that is stored in neither order raises nothing
\* and leaves sim_set and region_set as they were.
C2_RemoveAbsentIsNoOp ==
    [][\A a \in AnyLabel, b \in AnyLabel :
          (pc = "ready" /\ ~Present(a, b) /\ last' = "remove_set"
              /\ DoRemoveSet(a, b)) =>
              (raised' = "none" /\ heap' = heap)]_vars

\* ------------------------------------------------------------ C7
\* C7, as claimed: the smoke image gives 9 pairs over 6 live labels; after
\* the three removals label 1 is dead, 5 labels are live and 6 pairs are left.
C7_SmokeCounts ==
    (driver = "smoke" /\ pc = "ready") =>
        /\ calls <= 1 =>
              /\ Cardinality(SimSet) = 9
              /\ RegionSet = LabelsOf(SmokeImage)
              /\ SimularitySetLen = 6
        /\ calls = Len(SmokeScript) =>
              /\ 1 \notin RegionSet
              /\ SimularitySetLen = 5
              /\ Cardinality(SimSet) = 6

\* C7, amended: the smoke image gives 12 pairs over 6 live labels; after the
\* three removals label 1 is dead, 5 labels are live and 9 pairs are left.
C7_SmokeCountsAmended ==
    (driver = "smoke" /\ pc = "ready") =>
        /\ calls <= 1 =>
              /\ Cardinality(SimSet) = 12
              /\ RegionSet = LabelsOf(SmokeImage)
              /\ SimularitySetLen = 6
        /\ calls = Len(SmokeScript) =>
              /\ raised = "none"
              /\ 1 \notin RegionSet
              /\ SimularitySetLen = 5
              /\ Cardinality(SimSet) = 9

\* The smoke test has made its last removal.
C7_Witness ==
    /\ driver = "smoke"
    /\ pc = "ready"
    /\ calls = Len(SmokeScript)
    /\ last = "remove_set"

\* ------------------------------------------------------------ C8
\* C8, as claimed: after construction no step adds a pair or a region.
C8_OnlyShrinks ==
    [][pc = "ready" => (SimSet' \subseteq SimSet /\ RegionSet' \subseteq RegionSet)]_vars

\* C8, amended: after construction every call other than add_set leaves
\* sim_set and region_set subsets of what they were.
C8_ShrinksUnlessAddSet ==
    [][(pc = "ready" /\ last' # "add_set") =>
          (SimSet' \subseteq SimSet /\ RegionSet' \subseteq RegionSet)]_vars

\* A remove_set call has taken the last pair: every label of the image is dead.
C8_Witness ==
    /\ pc = "ready"
    /\ last = "remove_set"
    /\ raised = "none"
    /\ Cardinality(LabelsOf(region_image)) >= 2
    /\ SimSet = {}
    /\ RegionSet = {}

\* ------------------------------------------------------------ C10
\* C10: remove_set of a stored pair removes that pair and nothing else: the
\* pair count drops by one, no other pair changes, only a and b can leave
\* region_set, nothing is raised, and the set handed out by get_sim_set()
\* shows the removal; the smoke test ends with 5 regions and 9 pairs in the
\* set it holds.
C10_RemovesExactlyThePair ==
    /\ [][\A a \in AnyLabel, b \in AnyLabel :
             (pc = "ready" /\ Present(a, b) /\ last' = "remove_set"
                 /\ DoRemoveSet(a, b)) =>
                 /\ raised' = "none"
                 /\ SimSet' = SimSet \ {<<a, b>>, <<b, a>>}
                 /\ Cardinality(SimSet') = Cardinality(SimSet) - 1
                 /\ RegionSet' \subseteq RegionSet
                 /\ (RegionSet \ RegionSet') \subseteq {a, b}
                 /\ held # 0 => heap'[held] = SimSet']_vars
    /\ []((driver = "smoke" /\ pc = "ready" /\ calls = Len(SmokeScript)) =>
             /\ SimularitySetLen = 5
             /\ held # 0
             /\ Cardinality(heap[held]) = 9)

\* A client holding the set from get_sim_set() has removed one of three pairs.
C10_Witness ==
    /\ driver = "client"
    /\ pc = "ready"
    /\ held = sim_set
    /\ last = "remove_set"
    /\ raised = "none"
    /\ Cardinality(SimSet) = 2
    /\ Cardinality(heap[held]) = 2

\* ------------------------------------------------------------ C3
Abs(n) == IF n < 0 THEN -n ELSE n

\* Some pixel labelled a touches, by a side or a corner, a pixel labelled b.
Adjacent8(img, a, b) ==
    \E p \in DOMAIN img, q \in DOMAIN img :
        /\ p # q
        /\ Abs(p[1] - q[1]) <= 1
        /\ Abs(p[2] - q[2]) <= 1
        /\ img[p] = a
        /\ img[q] = b

\* C3: construction stores exactly the pairs of distinct labels that are
\* 8-adjacent in the label image, each in one order only and none with a = b.
C3_PairsAreTheAdjacencies ==
    pc = "ready" =>
        /\ \A item \in SimSet :
              /\ item[1] # item[2]
              /\ Adjacent8(region_image, item[1], item[2])
              /\ <<item[2], item[1]>> \notin SimSet
        /\ \A a \in LabelsOf(region_image), b \in LabelsOf(region_image) :
              (a # b /\ Adjacent8(region_image, a, b)) => Present(a, b)

\* A constructed image of two rows in which two labels touch only by the
\* corner that the upper-right comparison sees.
C3_Witness ==
    /\ pc = "ready"
    /\ height >= 2
    /\ width >= 2
    /\ \E p \in DOMAIN region_image :
          /\ <<p[1] - 1, p[2] + 1>> \in DOMAIN region_image
          /\ LET a == region_image[p]
                 b == region_image[<<p[1] - 1, p[2] + 1>>]
             IN  /\ a # b
                 /\ Present(a, b)
                 /\ \A q \in DOMAIN region_image, t \in DOMAIN region_image :
                       (region_image[q] = a /\ region_image[t] = b
                           /\ Abs(q[1] - t[1]) <= 1 /\ Abs(q[2] - t[2]) <= 1)
                       => (Abs(q[1] - t[1]) = 1 /\ q[2] - t[2] = t[1] - q[1])

\* ------------------------------------------------------------ C6
\* C6: no object is constructed from a label image and a colour image of
\* different height or width.
C6_MismatchedShapesRejected ==
    pc = "ready" => image = <<height, width>>

\* ------------------------------------------------------------ C4
\* The box covers every row and column of the other box.
Covers(box, inner) ==
    /\ box.row_start <= inner.row_start
    /\ box.col_start <= inner.col_start
    /\ box.row_start + box.height >= inner.row_start + inner.height
    /\ box.col_start + box.width >= inner.col_start + inner.width

\* The box create_bounding_box gives for a label of the image.
BoxOf(region) == create_bounding_box(region_image, region).value

\* C4: the box combine_bounding_boxes returns covers both boxes and has at
\* least the area of each.
C4_CombinedBoxCoversBoth ==
    [][\A a \in LabelsOf(region_image), b \in LabelsOf(region_image) :
          (pc = "ready" /\ last' = "combine_bounding_boxes"
              /\ DoCombine(BoxOf(a), BoxOf(b))) =>
              /\ Covers(result', BoxOf(a))
              /\ Covers(result', BoxOf(b))
              /\ BoxLen(result') >= BoxLen(BoxOf(a))
              /\ BoxLen(result') >= BoxLen(BoxOf(b))]_vars

\* ------------------------------------------------------------ C5
\* C5: for a label that is nowhere in the label image, get_indices_of_region
\* returns no position and create_bounding_box returns, without raising, a
\* box of area zero.
C5_UnknownLabelIsSoft ==
    [][\A region \in Labels :
          (pc = "ready" /\ region \notin LabelsOf(region_image)) =>
              /\ (last' = "get_indices_of_region" /\ DoGetIndices(region)) =>
                    (raised' = "none" /\ result' = {})
              /\ (last' = "create_bounding_box" /\ DoCreateBoundingBox(region)) =>
                    /\ raised' = "none"
                    /\ result' # None
                    /\ BoxLen(result') = 0]_vars

\* ------------------------------------------------------------ C9
\* C9, as claimed: every label of the label image has a cached box, equal to
\* the box computed on demand.
C9_CacheForEveryLabel ==
    pc = "ready" =>
        /\ LabelsOf(region_image) \subseteq DOMAIN bounding_box
        /\ (last = "create_bounding_box" /\ raised = "none") =>
              bounding_box[result.region] = result

\* The labels that are in region_set when the scan ends: those of an image
\* with at least two distinct labels.
LiveAtConstruction ==
    IF Cardinality(LabelsOf(region_image)) >= 2
    THEN LabelsOf(region_image) ELSE {}

\* C9, amended: every label that is live when construction ends has a cached
\* box, which stays, through any removals, equal to the box computed on
\* demand; a label that was never live (the only label of a one-label image)
\* has none.
C9_CacheForLiveLabels ==
    pc = "ready" =>
        /\ DOMAIN bounding_box = LiveAtConstruction
        /\ (last = "create_bounding_box" /\ raised = "none"
               /\ result.region \in LiveAtConstruction) =>
              bounding_box[result.region] = result

\* After a removal that killed a label, the box of that label is computed on
\* demand.
C9_Witness ==
    /\ pc = "ready"
    /\ last = "create_bounding_box"
    /\ raised = "none"
    /\ result.region \in LiveAtConstruction
    /\ result.region \notin RegionSet
    /\ result.height + result.width > 0

====
